---- MODULE Spec2Model ----
(***************************************************************************)
(* OpenRouterGenerator (src/agent/LLM/openrouter.py): the retry loop of    *)
(* request(), the JSON-mode degradation of _chat_with_json_mode and the    *)
(* in-place instruction injection of _prepare_messages_for_json_mode.      *)
(*                                                                         *)
(* The instance runs on one asyncio event loop: the code between two       *)
(* awaits is one atomic action.  The awaits that suspend a call are the    *)
(* HTTP call (client.chat.completions.create) and the backoff sleep.       *)
(***************************************************************************)
EXTENDS Integers, Sequences, FiniteSets, TLC

\* Number of request() coroutines that may be in progress on one instance.
MaxConcurrent == 2

Slots == 1..MaxConcurrent

\* a retry loop that allows one attempt more
max_retries_plus_one == 3 + 1

\* request(): max_retries = 3
max_retries == 3

-----------------------------------------------------------------------------
\* Text is a tuple of one-character strings, so that lower() and the
\* substring test of _prepare_messages_for_json_mode are computed.

\* a test of the keyword that respects the letter case
Lower_identity(ch) == ch

\* str.lower(), on the letters of the keyword
Lower(ch) ==
    CASE ch = "J" -> "j"
      [] ch = "S" -> "s"
      [] ch = "O" -> "o"
      [] ch = "N" -> "n"
      [] OTHER -> ch

LowerText(t) == [i \in 1..Len(t) |-> Lower(t[i])]

Contains(sub, t) ==
    \E i \in 1..(Len(t) - Len(sub) + 1) : SubSeq(t, i, i + Len(sub) - 1) = sub

\* a synthetic system message whose text does not hold the keyword
json_instruction_no_keyword ==
    [role |-> "system", content |-> <<"o", "u", "t", "p", "u", "t", ".">>]

\* the synthetic system message ("... designed to output JSON.")
json_instruction ==
    [role |-> "system", content |-> <<"o", "u", "t", " ", "J", "S", "O", "N", ".">>]

has_json_instruction(messages) ==
    \E i \in 1..Len(messages) :
        /\ messages[i].role = "system"
        /\ Contains(<<"j", "s", "o", "n">>, LowerText(messages[i].content))

\* messages.insert(0, json_instruction) mutates the caller's list; the same
\* list object is returned.
_prepare_messages_for_json_mode(messages) ==
    IF ~has_json_instruction(messages)
    THEN <<json_instruction>> \o messages
    ELSE messages

\* The message lists a caller passes to request().
InitialMessageLists ==
    << << [role |-> "user", content |-> <<"h", "i">>] >>,
       << [role |-> "system", content |-> <<"a", "s", " ", "J", "S", "O", "N">>],
          [role |-> "user", content |-> <<"h", "i">>] >>,
       << [role |-> "system", content |-> <<"o", "k">>],
          [role |-> "user", content |-> <<"j", "s", "o", "n">>] >> >>

ListIds == 1..Len(InitialMessageLists)

-----------------------------------------------------------------------------
\* json_mode_strategy: None, then the strategies of _chat_with_json_mode.
None == "None"

Strategies == {None, "json_schema", "json_object", "disabled"}

\* response_format of the request of each kind ("" when the key is absent)
response_format(kind) ==
    CASE kind = "json_schema" -> "json_schema"
      [] kind = "json_object" -> "json_object"
      [] OTHER -> ""

-----------------------------------------------------------------------------
\* What the HTTP call of one request can produce.

\* response.usage as the attributes it has (the empty record is usage None)
FullUsage ==
    [prompt_tokens |-> 3, completion_tokens |-> 2, total_tokens |-> 5, cost |-> 1]

\* A response: the number of choices, choices[0].message.content, whether
\* schema.model_validate_json accepts the content, and the usage attribute.
Responses ==
    { [choices |-> 1, content |-> "{\"thought\": 1}", valid |-> TRUE,
       has_usage |-> TRUE, usage |-> FullUsage],
      [choices |-> 1, content |-> "not json", valid |-> FALSE,
       has_usage |-> FALSE, usage |-> FullUsage],
      [choices |-> 1, content |-> "{}", valid |-> FALSE,
       has_usage |-> TRUE, usage |-> [prompt_tokens |-> 4]],
      [choices |-> 0, content |-> "", valid |-> FALSE,
       has_usage |-> FALSE, usage |-> FullUsage] }

\* An exception raised by client.chat.completions.create: the server
\* rejecting the request, or a transport failure; str(e) is its message.
Exceptions ==
    { [type |-> "rejected", message |-> "response_format unsupported"],
      [type |-> "transient", message |-> "Request timed out."],
      [type |-> "transient", message |-> ""] }

\* the IndexError of response.choices[0] on an empty list
IndexError == [type |-> "IndexError", message |-> "list index out of range"]

NoException == [type |-> "none", message |-> ""]

ZeroUsage ==
    [prompt_tokens |-> 0, completion_tokens |-> 0, total_tokens |-> 0, cost |-> 0]

UsageFields == {"prompt_tokens", "completion_tokens", "total_tokens", "cost"}

\* usage copied only when all four attributes are there
_extract_usage_all_or_nothing(response) ==
    IF response.has_usage /\ DOMAIN response.usage = UsageFields
    THEN response.usage
    ELSE ZeroUsage

\* lines 304-320: hasattr(response, 'usage'), then getattr with a default
\* for each of the four fields (usage None has no attribute)
_extract_usage(response) ==
    IF response.has_usage
    THEN [f \in UsageFields |->
            IF f \in DOMAIN response.usage THEN response.usage[f] ELSE 0]
    ELSE ZeroUsage

\* schema.model_validate_json(content): the parsed object
Parsed(content) == [parsed |-> content]

Raw(content) == [raw |-> content]

\* request() returns the tuple (response_content, error_message, usage_data)
Content(envelope) == envelope[1]

Error(envelope) == envelope[2]

Usage(envelope) == envelope[3]

\* a validation failure reported to the caller as an error
SuccessEnvelope_escalate(response, rp, jm) ==
    IF rp /\ jm /\ ~response.valid
    THEN << Raw(""), "validation failed", ZeroUsage >>
    ELSE << IF rp /\ jm THEN Parsed(response.content) ELSE Raw(response.content),
            "", _extract_usage(response) >>

\* request(), lines 75-90: the tuple returned for a response that has a
\* choice (self.schema is always set: schema or AgentActionSchema)
SuccessEnvelope(response, rp, jm) ==
    << IF rp /\ jm /\ response.valid
       THEN Parsed(response.content)
       ELSE Raw(response.content),
       "",
       _extract_usage(response) >>

\* request(), lines 96-101
FailureEnvelope(message) == << Raw(""), message, ZeroUsage >>

\* nothing returned yet, and the None of a function that ends without return
NoEnvelope == << >>

\* the last-attempt test off by one: the third failure sleeps instead of
\* returning
LastAttempt_off_by_one(attempt_) == attempt_ = max_retries

\* request(), line 94: if attempt == max_retries - 1
LastAttempt(attempt_) == attempt_ = max_retries - 1

\* request(), line 66: for attempt in range(max_retries)
InRange(attempt_) == attempt_ < max_retries

\* a backoff of 2 * attempt instead of 2 ** attempt
Backoff_linear(attempt_) == 2 * attempt_

\* asyncio.sleep(2 ** attempt)
Backoff(attempt_) == 2 ^ attempt_

-----------------------------------------------------------------------------
\* _chat_with_json_mode

\* _chat_with_json_mode without the test of the cached strategy: every
\* attempt begins at json_schema
KindFrom_no_cache(stage, strategy) ==
    IF stage = 1 THEN "json_schema"
    ELSE IF stage <= 2 /\ strategy = "json_object" THEN "json_object"
    ELSE "plain_no_json_mode"

\* The request issued next when control is at the first line (stage 1), at
\* line 137 after the json_schema request raised (stage 2), or at line 151
\* after the json_object request raised (stage 3).
KindFrom(stage, strategy) ==
    IF stage = 1 /\ strategy \in {None, "json_schema"} THEN "json_schema"
    ELSE IF stage <= 2 /\ strategy = "json_object" THEN "json_object"
    ELSE "plain_no_json_mode"

StageOf(kind) == IF kind = "json_schema" THEN 1 ELSE IF kind = "json_object" THEN 2 ELSE 3

\* line 129: only the json_schema branch records its success
StrategyOnSuccess(kind, strategy) ==
    IF kind = "json_schema" THEN "json_schema" ELSE strategy

\* a json_object failure that sends the next call back to json_schema
StrategyOnFailure_regress(kind, strategy) ==
    CASE kind = "json_schema" -> "json_object"
      [] kind = "json_object" -> "json_schema"
      [] OTHER -> strategy

\* a json_object failure that is not recorded
StrategyOnFailure_object_kept(kind, strategy) ==
    CASE kind = "json_schema" -> "json_object"
      [] OTHER -> strategy

\* lines 134 and 145: except Exception, whatever was raised
StrategyOnFailure(kind, strategy) ==
    CASE kind = "json_schema" -> "json_object"
      [] kind = "json_object" -> "disabled"
      [] OTHER -> strategy

\* only the json_schema request inside a try: a json_object failure goes
\* to the caller of chat()
CaughtInChat_schema_only(kind) == kind = "json_schema"

\* lines 126-134 and 138-145: the requests made inside a try whose except
\* clause lets control fall through; lines 155 and 119 are outside any try
CaughtInChat(kind) == kind \in {"json_schema", "json_object"}

\* chat() going to _chat_with_json_mode whatever self.json_mode is
FirstKind_always_json(jm, strategy) == KindFrom(1, strategy)

\* chat(): the first request of an attempt
FirstKind(jm, strategy) ==
    IF jm THEN KindFrom(1, strategy) ELSE "chat_plain"

\* the two _request_with_json_* prepare the list; the plain requests send it
\* as it is
MessagesSent(kind, messages) ==
    IF kind \in {"json_schema", "json_object"}
    THEN _prepare_messages_for_json_mode(messages)
    ELSE messages

-----------------------------------------------------------------------------
VARIABLES
    json_mode,            \* self.json_mode
    json_mode_strategy,   \* self.json_mode_strategy
    lists,                \* the message list objects of the caller
    pc,                   \* where each request() coroutine is
    attempt,              \* request(): the loop variable
    messages,             \* request(): the list object passed (a ListId)
    return_parsed,        \* request(): the argument
    ret,                  \* the tuple request() returned
    supplied,             \* history: the list's content when request() was called
    startStrategy,        \* history: json_mode_strategy when request() was called
    log,                  \* history: the HTTP requests of the current attempt
    httpCount,            \* history: the number of HTTP requests of the call
    slept,                \* history: the backoff sleeps of the call
    chatCalls,            \* history: the chat() invocations of the call
    wasDisabled,          \* history: json_mode_strategy has been "disabled"
    afterDisabled,        \* history: the call began after that
    lastRaised,           \* history: the exception caught last
    arg,                  \* the argument of a function called on its own
    result,               \* what that call returned (<<>> before the call)
    file,                 \* the token-count file (<<>> while it is missing)
    saves                 \* history: the save_token_count_to_file calls

\* the variables of request()
requestVars == <<json_mode, json_mode_strategy, lists, pc, attempt, messages,
                 return_parsed, ret, supplied, startStrategy, log, httpCount,
                 slept, chatCalls, wasDisabled, afterDisabled, lastRaised>>

vars == <<requestVars, arg, result, file, saves>>

\* a new OpenRouterGenerator on which request() has not been called
RequestInit ==
    /\ json_mode \in BOOLEAN
    /\ json_mode_strategy = None
    /\ lists = [l \in ListIds |-> InitialMessageLists[l]]
    /\ pc = [c \in Slots |-> "idle"]
    /\ attempt = [c \in Slots |-> 0]
    /\ messages = [c \in Slots |-> 1]
    /\ return_parsed = [c \in Slots |-> TRUE]
    /\ ret = [c \in Slots |-> NoEnvelope]
    /\ supplied = [c \in Slots |-> <<>>]
    /\ startStrategy = [c \in Slots |-> None]
    /\ log = [c \in Slots |-> <<>>]
    /\ httpCount = [c \in Slots |-> 0]
    /\ slept = [c \in Slots |-> <<>>]
    /\ chatCalls = [c \in Slots |-> 0]
    /\ wasDisabled = FALSE
    /\ afterDisabled = [c \in Slots |-> FALSE]
    /\ lastRaised = NoException

Init ==
    /\ RequestInit
    /\ arg = << >>
    /\ result = << >>
    /\ file = << >>
    /\ saves = << >>

\* The request in flight for call c
Current(c) == log[c][Len(log[c])]

\* Build data and reach `await self.client.chat.completions.create(**data)`:
\* the list l is prepared in place and its content goes into data.
Send(c, kind, att, l, before) ==
    /\ lists' = [lists EXCEPT ![l] = MessagesSent(kind, @)]
    /\ log' = [log EXCEPT ![c] =
                  Append(before, [kind |-> kind, attempt |-> att,
                                  messages |-> MessagesSent(kind, lists[l]),
                                  result |-> "pending"])]
    /\ httpCount' = [httpCount EXCEPT ![c] = IF before = <<>> /\ att = 0 THEN 1 ELSE @ + 1]
    /\ pc' = [pc EXCEPT ![c] = "await_create"]

Closed(c, outcome) == [log[c] EXCEPT ![Len(log[c])].result = outcome]

\* request(), lines 92-103: an exception reached the retry loop
Except(c, e) ==
    IF LastAttempt(attempt[c])
    THEN /\ ret' = [ret EXCEPT ![c] = FailureEnvelope(e.message)]
         /\ pc' = [pc EXCEPT ![c] = "done"]
         /\ slept' = slept
    ELSE /\ slept' = [slept EXCEPT ![c] = Append(@, Backoff(attempt[c]))]
         /\ pc' = [pc EXCEPT ![c] = "sleep"]
         /\ ret' = ret

\* A caller invokes request(messages, return_parsed=rp) with list object l:
\* attempt 0 runs up to its first HTTP call.
Request(c, l, rp) ==
    /\ pc[c] \in {"idle", "done"}
    /\ messages' = [messages EXCEPT ![c] = l]
    /\ return_parsed' = [return_parsed EXCEPT ![c] = rp]
    /\ attempt' = [attempt EXCEPT ![c] = 0]
    /\ ret' = [ret EXCEPT ![c] = NoEnvelope]
    /\ supplied' = [supplied EXCEPT ![c] = lists[l]]
    /\ startStrategy' = [startStrategy EXCEPT ![c] = json_mode_strategy]
    /\ slept' = [slept EXCEPT ![c] = <<>>]
    /\ chatCalls' = [chatCalls EXCEPT ![c] = 1]
    /\ afterDisabled' = [afterDisabled EXCEPT ![c] = wasDisabled]
    /\ Send(c, FirstKind(json_mode, json_mode_strategy), 0, l, <<>>)
    /\ UNCHANGED <<json_mode, json_mode_strategy, wasDisabled, lastRaised>>
    /\ UNCHANGED <<arg, result, file, saves>>

\* The HTTP call of call c returns response r.
HttpReturn(c, r) ==
    /\ pc[c] = "await_create"
    /\ json_mode_strategy' = StrategyOnSuccess(Current(c).kind, json_mode_strategy)
    /\ IF r.choices = 0
       THEN /\ log' = [log EXCEPT ![c] = Closed(c, "malformed")]
            /\ Except(c, IndexError)
            /\ lastRaised' = IndexError
       ELSE /\ log' = [log EXCEPT ![c] = Closed(c, "ok")]
            /\ ret' = [ret EXCEPT ![c] =
                          SuccessEnvelope(r, return_parsed[c], json_mode)]
            /\ pc' = [pc EXCEPT ![c] = "done"]
            /\ UNCHANGED <<slept, lastRaised>>
    /\ UNCHANGED <<json_mode, lists, attempt, messages, return_parsed, supplied,
                   startStrategy, chatCalls, wasDisabled, afterDisabled,
                   httpCount>>
    /\ UNCHANGED <<arg, result, file, saves>>

\* The HTTP call of call c raises e.  In the two JSON branches the except
\* clause advances the strategy and control falls through to the next
\* request of the same attempt; a plain request's exception reaches request().
HttpRaise(c, e) ==
    /\ pc[c] = "await_create"
    /\ LET kind == Current(c).kind
           strategy == StrategyOnFailure(kind, json_mode_strategy)
       IN  /\ json_mode_strategy' = strategy
           /\ wasDisabled' = (wasDisabled \/ strategy = "disabled")
           /\ lastRaised' = e
           /\ IF CaughtInChat(kind)
              THEN /\ Send(c, KindFrom(StageOf(kind) + 1, strategy), attempt[c],
                           messages[c], Closed(c, "raised"))
                   /\ UNCHANGED <<ret, slept>>
              ELSE /\ log' = [log EXCEPT ![c] = Closed(c, "raised")]
                   /\ Except(c, e)
                   /\ UNCHANGED <<lists, httpCount>>
    /\ UNCHANGED <<json_mode, attempt, messages, return_parsed, supplied,
                   startStrategy, chatCalls, afterDisabled>>
    /\ UNCHANGED <<arg, result, file, saves>>

\* The backoff sleep of call c is over: the next attempt runs up to its
\* first HTTP call; when the range is exhausted the function ends without a
\* return statement.
BackoffDone(c) ==
    /\ pc[c] = "sleep"
    /\ IF InRange(attempt[c] + 1)
       THEN /\ attempt' = [attempt EXCEPT ![c] = @ + 1]
            /\ chatCalls' = [chatCalls EXCEPT ![c] = @ + 1]
            /\ Send(c, FirstKind(json_mode, json_mode_strategy), attempt[c] + 1,
                    messages[c], <<>>)
            /\ ret' = ret
       ELSE /\ pc' = [pc EXCEPT ![c] = "done"]
            /\ ret' = [ret EXCEPT ![c] = NoEnvelope]
            /\ UNCHANGED <<attempt, chatCalls, lists, log, httpCount>>
    /\ UNCHANGED <<json_mode, json_mode_strategy, messages, return_parsed,
                   supplied, startStrategy, slept, wasDisabled, afterDisabled,
                   lastRaised>>
    /\ UNCHANGED <<arg, result, file, saves>>

\* One step of call c, with the caller's inputs and the HTTP outcomes drawn
\* from the given sets.
Step(c, Ls, Rps, Rs, Es) ==
    \/ \E l \in Ls, rp \in Rps : Request(c, l, rp)
    \/ \E r \in Rs : HttpReturn(c, r)
    \/ \E e \in Es : HttpRaise(c, e)
    \/ BackoffDone(c)

\* Calls that overlap: a call may begin, and any suspended call may resume,
\* whatever the other calls are doing.  The overlapping calls share one list.
SharedLists == {1}

OverlapResponses == {r \in Responses : r.valid \/ r.choices = 0}

OverlapExceptions == {e \in Exceptions : e.type = "transient" /\ e.message # ""}

Next ==
    \E c \in Slots :
        Step(c, SharedLists, {TRUE}, OverlapResponses, OverlapExceptions)

Spec == Init /\ [][Next]_vars

\* Calls made one after another (each awaited before the next is made), with
\* every input and every outcome.
NextSeq == Step(1, ListIds, BOOLEAN, Responses, Exceptions)

SpecSeq == Init /\ [][NextSeq]_vars

\* Calls made one after another, every HTTP call completing and every
\* backoff sleep ending (asyncio resumes a coroutine whose await is over).
FairSpecSeq ==
    /\ SpecSeq
    /\ WF_vars(\E r \in Responses : HttpReturn(1, r))
    /\ WF_vars(\E e \in Exceptions : HttpRaise(1, e))
    /\ WF_vars(BackoffDone(1))

-----------------------------------------------------------------------------
\* _prepare_messages_for_json_mode called on its own

\* Longest message list passed to _prepare_messages_for_json_mode.
MaxMessages == 2

\* message contents: three spellings of the keyword, and three texts that
\* do not contain it
Texts ==
    { <<"j", "s", "o", "n">>, <<"a", " ", "J", "S", "O", "N">>,
      <<"J", "s", "O", "n", "!">>, <<"o", "k">>, <<"j", "s", " ", "o", "n">>,
      << >> }

MessageInputs ==
    UNION { [1..n -> [role : {"system", "user"}, content : Texts]] :
              n \in 0..MaxMessages }

InitPrepare ==
    /\ RequestInit
    /\ json_mode = TRUE
    /\ arg \in MessageInputs
    /\ result = << >>
    /\ file = << >>
    /\ saves = << >>

\* messages = self._prepare_messages_for_json_mode(messages)
Prepare ==
    /\ result = << >>
    /\ result' = << _prepare_messages_for_json_mode(arg) >>
    /\ UNCHANGED <<requestVars, arg, file, saves>>

NextPrepare == Prepare

SpecPrepare == InitPrepare /\ [][NextPrepare]_vars

-----------------------------------------------------------------------------
\* _extract_usage called on its own

\* the values an attribute of response.usage holds
UsageValues == {1, 5}

\* responses without a usage attribute, and with a usage object holding any
\* of the four attributes (none of them: usage is None)
UsageInputs ==
    { [has_usage |-> FALSE, usage |-> << >>] } \cup
    { [has_usage |-> TRUE, usage |-> u] :
        u \in UNION { [S -> UsageValues] : S \in SUBSET UsageFields } }

InitUsage ==
    /\ RequestInit
    /\ json_mode = FALSE
    /\ arg \in UsageInputs
    /\ result = << >>
    /\ file = << >>
    /\ saves = << >>

\* usage_data = self._extract_usage(response)
ExtractUsage ==
    /\ result = << >>
    /\ result' = << _extract_usage(arg) >>
    /\ UNCHANGED <<requestVars, arg, file, saves>>

NextUsage == ExtractUsage

SpecUsage == InitUsage /\ [][NextUsage]_vars

-----------------------------------------------------------------------------
\* token_calculator.save_token_count_to_file

\* Most calls of save_token_count_to_file on one filename.
MaxSaves == 2

\* the seven steps_* counts of step_tokens, by the total they are added to
CountOf ==
    [total_planning_input_tokens |-> "steps_planning_input_token_counts",
     total_planning_output_tokens |-> "steps_planning_output_token_counts",
     total_reward_input_tokens |-> "steps_reward_input_token_counts",
     total_reward_output_tokens |-> "steps_reward_output_token_counts",
     total_input_tokens |-> "steps_input_token_counts",
     total_output_tokens |-> "steps_output_token_counts",
     total_tokens |-> "steps_token_counts"]

TokenTotals == DOMAIN CountOf

CostTotals ==
    {"total_planning_input_token_cost", "total_planning_output_token_cost",
     "total_reward_input_token_cost", "total_reward_output_token_cost",
     "total_input_token_cost", "total_output_token_cost", "total_token_cost"}

\* the token counts of a task's steps
StepCounts ==
    { [steps_planning_input_token_counts |-> 7,
       steps_planning_output_token_counts |-> 1,
       steps_reward_input_token_counts |-> 4,
       steps_reward_output_token_counts |-> 2,
       steps_input_token_counts |-> 11,
       steps_output_token_counts |-> 3,
       steps_token_counts |-> 14],
      [steps_planning_input_token_counts |-> 2,
       steps_planning_output_token_counts |-> 1,
       steps_reward_input_token_counts |-> 0,
       steps_reward_output_token_counts |-> 0,
       steps_input_token_counts |-> 2,
       steps_output_token_counts |-> 1,
       steps_token_counts |-> 3] }

\* the API cost keys step_tokens may carry (costs in whole units)
ApiCosts ==
    { << >>,
      [planning_total_cost |-> 2, reward_total_cost |-> 3],
      [planning_total_cost |-> 2] }

StepTokens == { counts @@ costs : counts \in StepCounts, costs \in ApiCosts }

TaskNames == {"t1", "t2"}

planning_text_model == "p"

global_reward_text_model == "r"

\* token_pricing: None (the empty record), or the models priced and their
\* prices per token
TokenPricings ==
    { << >> } \cup
    { [pricing_models |-> ms,
       input_price |-> [p |-> 2, r |-> 5],
       output_price |-> [p |-> 3, r |-> 7]] :
        ms \in {{"p", "r"}, {"p"}, {"r"}} }

SaveInputs ==
    [step_tokens : StepTokens, task_name : TaskNames, token_pricing : TokenPricings]

\* lines 88-97: the data of a file that does not exist
NewData ==
    [k \in TokenTotals \cup {"calls"} |-> IF k = "calls" THEN << >> ELSE 0]

\* every call beginning from the data of a missing file
Load_fresh(stored) == NewData

\* lines 84-97: json.load of the file, or the initial data when it is missing
Load(stored) == IF DOMAIN stored = {} THEN NewData ELSE stored

\* dict.get(key, default)
Get(d, key, default) == IF key \in DOMAIN d THEN d[key] ELSE default

\* lines 116-129: a key a dict lacks is set to 0
WithDefaults(d, keys) ==
    [k \in DOMAIN d \cup keys |-> IF k \in DOMAIN d THEN d[k] ELSE 0]

\* lines 99-113: the call record appended and the seven counts added
CountTokens(data, step_tokens, task_name) ==
    [k \in DOMAIN data |->
        IF k = "calls"
        THEN Append(data[k], [task_name |-> task_name, step_tokens |-> step_tokens])
        ELSE IF k \in TokenTotals THEN data[k] + step_tokens[CountOf[k]]
        ELSE data[k]]

\* lines 136-138: the API-provided costs
ApiBranch(data, planning_api_cost, reward_api_cost) ==
    [k \in DOMAIN data \cup {"total_planning_cost", "total_reward_cost"} |->
        CASE k = "total_planning_cost" -> Get(data, k, 0) + planning_api_cost
          [] k = "total_reward_cost" -> Get(data, k, 0) + reward_api_cost
          [] k = "total_token_cost" -> data[k] + planning_api_cost + reward_api_cost
          [] OTHER -> data[k]]

\* lines 142-172: the costs priced from token_pricing, each statement
\* reading what the statements before it stored
LegacyBranch(data, step_tokens, reward_model, planning_model, token_pricing) ==
    LET planning_input ==
            data.total_planning_input_token_cost +
            step_tokens.steps_planning_input_token_counts *
                token_pricing.input_price[planning_model]
        planning_output ==
            data.total_planning_output_token_cost +
            step_tokens.steps_planning_output_token_counts *
                token_pricing.output_price[planning_model]
        reward_priced == reward_model \in token_pricing.pricing_models
        reward_input ==
            IF reward_priced
            THEN data.total_reward_input_token_cost +
                 step_tokens.steps_reward_input_token_counts *
                     token_pricing.input_price[reward_model]
            ELSE data.total_reward_input_token_cost
        reward_output ==
            IF reward_priced
            THEN data.total_reward_output_token_cost +
                 step_tokens.steps_reward_output_token_counts *
                     token_pricing.output_price[reward_model]
            ELSE data.total_reward_output_token_cost
        input == data.total_input_token_cost + (planning_input + reward_input)
        output == data.total_output_token_cost + (planning_output + reward_output)
    IN  [data EXCEPT
            !.total_planning_input_token_cost = planning_input,
            !.total_planning_output_token_cost = planning_output,
            !.total_reward_input_token_cost = reward_input,
            !.total_reward_output_token_cost = reward_output,
            !.total_input_token_cost = input,
            !.total_output_token_cost = output,
            !.total_token_cost = @ + (input + output)]

\* lines 115-172: the cost fields
AddCosts(data, step_tokens, reward_model, planning_model, token_pricing) ==
    LET with_costs == WithDefaults(data, CostTotals)
        planning_api_cost == Get(step_tokens, "planning_total_cost", 0)
        reward_api_cost == Get(step_tokens, "reward_total_cost", 0)
    IN  IF planning_api_cost > 0 \/ reward_api_cost > 0
        THEN ApiBranch(with_costs, planning_api_cost, reward_api_cost)
        ELSE IF /\ DOMAIN token_pricing # {}
                /\ planning_model \in token_pricing.pricing_models
        THEN LegacyBranch(with_costs, step_tokens, reward_model, planning_model,
                          token_pricing)
        ELSE with_costs

\* the data save_token_count_to_file writes, given the data stored
save_token_count_to_file(stored, step_tokens, task_name, rm, pm, pricing) ==
    AddCosts(CountTokens(Load(stored), step_tokens, task_name),
             step_tokens, rm, pm, pricing)

InitSave ==
    /\ RequestInit
    /\ json_mode = FALSE
    /\ arg = << >>
    /\ result = << >>
    /\ file = << >>
    /\ saves = << >>

\* One call of save_token_count_to_file on the filename, from open(filename,
\* 'r') to json.dump.
Save(in) ==
    /\ Len(saves) < MaxSaves
    /\ file' = save_token_count_to_file(file, in.step_tokens, in.task_name,
                                        global_reward_text_model,
                                        planning_text_model, in.token_pricing)
    /\ saves' = Append(saves, in)
    /\ UNCHANGED <<requestVars, arg, result>>

NextSave == \E in \in SaveInputs : Save(in)

SpecSave == InitSave /\ [][NextSave]_vars

-----------------------------------------------------------------------------
\* token_calculator.calculation_of_token

\* Longest message list passed to calculation_of_token.
MaxTokenMessages == 3

\* len(encoding.encode(text)): the tokenizer is tiktoken's; a text is held
\* as its characters and encodes to one token per character
encode(text) == [i \in 1..Len(text) |-> <<"token", text[i]>>]

\* message.get('content'): None, a string, or a list of parts (typed parts
\* with or without text, and a part without a type)
Contents ==
    { [kind |-> "None"],
      [kind |-> "str", text |-> <<"h", "i">>],
      [kind |-> "str", text |-> <<"h", "e", "l", "l", "o">>],
      [kind |-> "list",
       parts |-> << [type |-> <<"t", "e", "x", "t">>, text |-> <<"a", "b", "c">>],
                    [type |-> <<"i", "m", "a", "g", "e", "_", "u", "r", "l">>] >>],
      [kind |-> "list",
       parts |-> << [image_url |-> <<"u">>],
                    [type |-> <<"i", "n", "p", "u", "t", "_", "t", "e", "x", "t">>,
                     text |-> <<"d">>] >>] }

\* the messages argument: a string, or a list of message dicts
TokenInputs ==
    { [kind |-> "str", text |-> <<"h", "i">>] } \cup
    { [kind |-> "list", items |-> ms] :
        ms \in UNION { [1..n -> [content : Contents]] : n \in 0..MaxTokenMessages } }

\* lines 47-51: the tokens of the parts whose type contains "text"
RECURSIVE TokensOfParts(_)
TokensOfParts(parts) ==
    IF parts = << >> THEN 0
    ELSE (IF Contains(<<"t", "e", "x", "t">>,
                      IF "type" \in DOMAIN Head(parts) THEN Head(parts).type ELSE << >>)
          THEN Len(encode(Head(parts).text))
          ELSE 0)
         + TokensOfParts(Tail(parts))

\* lines 45-55: the tokens of one content that is not None
TokensOfContent(content) ==
    IF content.kind = "list"
    THEN TokensOfParts(content.parts)
    ELSE Len(encode(content.text))

\* lines 40-57: the loop over the messages; line 44 is a break, which ends
\* the loop at the first message whose content is None
RECURSIVE MessageLoop(_, _)
MessageLoop(items, current_tokens) ==
    IF items = << >> THEN current_tokens
    ELSE IF Head(items).content.kind = "None"
    THEN current_tokens
    ELSE MessageLoop(Tail(items),
                     current_tokens + TokensOfContent(Head(items).content))

\* lines 23-57; supported is what is_model_supported(model) returned
calculation_of_token(input, supported) ==
    IF ~supported THEN 0
    ELSE IF input.kind = "str" THEN Len(encode(input.text))
    ELSE MessageLoop(input.items, 0)

InitTokens ==
    /\ RequestInit
    /\ json_mode = FALSE
    /\ arg \in [messages : TokenInputs, supported : BOOLEAN]
    /\ result = << >>
    /\ file = << >>
    /\ saves = << >>

\* one call of calculation_of_token
CalculateTokens ==
    /\ result = << >>
    /\ result' = << calculation_of_token(arg.messages, arg.supported) >>
    /\ UNCHANGED <<requestVars, arg, file, saves>>

NextTokens == CalculateTokens

SpecTokens == InitTokens /\ [][NextTokens]_vars

-----------------------------------------------------------------------------
\* The order of the strategies: unset, json_schema, json_object, disabled.
Rank(strategy) ==
    CASE strategy = None -> 0
      [] strategy = "json_schema" -> 1
      [] strategy = "json_object" -> 2
      [] strategy = "disabled" -> 3

Active(c) == pc[c] # "idle"

Returned(c) == pc[c] = "done"

\* the call returned from an attempt whose last HTTP call gave a usable response
ReturnedSuccess(c) == Returned(c) /\ Current(c).result = "ok"

\* the call returned after an attempt that raised
ReturnedFailure(c) == Returned(c) /\ Current(c).result \in {"raised", "malformed"}

JsonKinds == {"json_schema", "json_object"}

\* how loose the format request of a kind is
Tier(kind) ==
    CASE kind = "json_schema" -> 1
      [] kind = "json_object" -> 2
      [] OTHER -> 3

-----------------------------------------------------------------------------
\* C1: with calls made one after another and json_mode set, no step takes
\* json_mode_strategy from a later value of the order None, json_schema,
\* json_object, disabled back to an earlier one.
C1_StrategyOnlyAdvances ==
    [][json_mode => Rank(json_mode_strategy) <= Rank(json_mode_strategy')]_vars

\* a later call has returned on an instance that went through to disabled
C1_Witness ==
    /\ json_mode
    /\ json_mode_strategy = "disabled"
    /\ afterDisabled[1]
    /\ Returned(1)

\* C2: with overlapping calls, no step of any call writes an earlier
\* strategy over a later one.
C2_NoRegressionWhenOverlapping ==
    [][\A earlier \in Strategies :
          json_mode_strategy' = earlier =>
              ~(Rank(earlier) < Rank(json_mode_strategy))]_vars

\* C3: a call begun after json_mode_strategy became disabled issues, in every
\* attempt, exactly one HTTP request, and that request has no response_format.
C3_DisabledIsFinal ==
    \A c \in Slots :
        (Active(c) /\ afterDisabled[c]) =>
            /\ Len(log[c]) <= 1
            /\ \A i \in 1..Len(log[c]) : response_format(log[c][i].kind) = ""

\* C4: chat() is invoked at most 3 times per call; a call that returned from
\* a successful attempt made no attempt after it, and the failure envelope
\* ("", the exception's message, zero usage) is returned only by the third
\* failed attempt.
C4_AtMostThreeAttempts ==
    \A c \in Slots :
        /\ chatCalls[c] <= 3
        /\ Active(c) => chatCalls[c] = attempt[c] + 1
        /\ pc[c] = "sleep" => chatCalls[c] < 3
        /\ (Active(c) /\ Current(c).result = "ok") => Returned(c)
        /\ ReturnedSuccess(c) => Error(ret[c]) = ""
        /\ ReturnedFailure(c) =>
              /\ chatCalls[c] = 3
              /\ Len(slept[c]) = 2
              /\ ret[c] = << Raw(""), lastRaised.message, ZeroUsage >>

\* a call returned the failure envelope
C4_Witness ==
    /\ ReturnedFailure(1)
    /\ chatCalls[1] = 3
    /\ Error(ret[1]) = "Request timed out."

\* C5: the backoff sleeps of a call are 1 s after the first failed attempt
\* and 2 s after the second, none after the third failure or after a success:
\* a call that fails three times has slept 3 s.
C5_BackoffSchedule ==
    \A c \in Slots :
        /\ slept[c] = SubSeq(<<1, 2>>, 1, Len(slept[c]))
        /\ Active(c) =>
              Len(slept[c]) = (IF pc[c] = "sleep" THEN attempt[c] + 1 ELSE attempt[c])
        /\ pc[c] = "sleep" => Current(c).result \in {"raised", "malformed"}
        /\ ReturnedFailure(c) => slept[c][1] + slept[c][2] = 3

C5_Witness == ReturnedFailure(1) /\ slept[1] = <<1, 2>>

\* C6: a returned failure envelope has empty content, a non-empty error and
\* zero usage; a returned success envelope has an empty error.
C6_EnvelopeShape ==
    \A c \in Slots :
        /\ ReturnedSuccess(c) => Error(ret[c]) = ""
        /\ ReturnedFailure(c) =>
              /\ Content(ret[c]) = Raw("")
              /\ Error(ret[c]) # ""
              /\ Usage(ret[c]) = ZeroUsage

\* C7: when every HTTP call completes, a call that was made returns, and what
\* it returns is a 3-tuple.
C7_AlwaysReturnsEnvelope ==
    /\ [](\A c \in Slots : Returned(c) => Len(ret[c]) = 3)
    /\ \A c \in Slots : (pc[c] \in {"await_create", "sleep"}) ~> Returned(c)

\* a call returned after three attempts that ended in a malformed response
C7_Witness ==
    /\ ReturnedFailure(1)
    /\ Current(1).result = "malformed"
    /\ Len(ret[1]) = 3

\* C8: with json_mode set, a call on a fresh instance sends a json_schema
\* request first; when that request fails, a json_object request follows in
\* the same attempt with no sleep, and when that one succeeds the call
\* returns a success envelope after these two requests, leaving the strategy
\* json_object.  A call that begins with the strategy json_object sends a
\* json_object request first, and when it succeeds it is the call's only
\* request.
C8_SchemaThenObjectThenCached ==
    \A c \in Slots :
        (json_mode /\ Active(c) /\ attempt[c] = 0) =>
            /\ startStrategy[c] = None =>
                  /\ log[c][1].kind = "json_schema"
                  /\ log[c][1].result = "raised" =>
                        /\ Len(log[c]) >= 2
                        /\ log[c][2].kind = "json_object"
                        /\ log[c][2].attempt = 0
                        /\ log[c][2].result = "ok" =>
                              /\ Returned(c)
                              /\ Len(log[c]) = 2
                              /\ httpCount[c] = 2
                              /\ slept[c] = << >>
                              /\ Len(ret[c]) = 3
                              /\ Error(ret[c]) = ""
                              /\ json_mode_strategy = "json_object"
            /\ startStrategy[c] = "json_object" =>
                  /\ log[c][1].kind = "json_object"
                  /\ log[c][1].result = "ok" =>
                        /\ Returned(c)
                        /\ httpCount[c] = 1
                        /\ response_format(log[c][1].kind) = "json_object"

\* a call that began with the strategy json_object returned after one
\* json_object request
C8_Witness ==
    /\ json_mode
    /\ Returned(1)
    /\ startStrategy[1] = "json_object"
    /\ httpCount[1] = 1
    /\ log[1][1].kind = "json_object"
    /\ log[1][1].result = "ok"

\* C9: the messages of a plain request sent by _chat_with_json_mode are the
\* messages the caller supplied to request().
C9_PlainSendsSuppliedMessages ==
    \A c \in Slots :
        Active(c) =>
            \A i \in 1..Len(log[c]) :
                log[c][i].kind = "plain_no_json_mode" =>
                    log[c][i].messages = supplied[c]

\* C10: when a json_schema or json_object request raises a transient error,
\* json_mode_strategy stays as it was and the call goes to the retry loop
\* (a backoff sleep, or the failure envelope on the last attempt).
C10_TransientErrorKeepsStrategy ==
    [][\A c \in Slots :
          ( /\ pc[c] = "await_create"
            /\ Current(c).kind \in JsonKinds
            /\ Len(log'[c]) >= Len(log[c])
            /\ log'[c][Len(log[c])].result = "raised"
            /\ lastRaised'.type = "transient" ) =>
              /\ json_mode_strategy' = json_mode_strategy
              /\ pc'[c] \in {"sleep", "done"}]_vars

\* C11: a json_schema or json_object request that raises is followed by
\* the next request of the same attempt, with no backoff sleep between them;
\* when a later request of that attempt succeeds, the call returns from that
\* attempt a success envelope whose error is empty.
C11_FormatFailureAbsorbed ==
    \A c \in Slots :
        Active(c) =>
            /\ \A i \in 1..Len(log[c]) :
                  (log[c][i].kind \in JsonKinds /\ log[c][i].result = "raised") =>
                      /\ i < Len(log[c])
                      /\ log[c][i + 1].attempt = log[c][i].attempt
                      /\ Tier(log[c][i + 1].kind) > Tier(log[c][i].kind)
            /\ (Len(log[c]) >= 2 /\ Current(c).result = "ok") =>
                  /\ Returned(c)
                  /\ Current(c).attempt = attempt[c]
                  /\ Len(slept[c]) = attempt[c]
                  /\ Len(ret[c]) = 3
                  /\ Error(ret[c]) = ""

\* a call whose json_schema and json_object requests raised returned the
\* success envelope of the plain request of the same first attempt
C11_Witness ==
    /\ ReturnedSuccess(1)
    /\ attempt[1] = 0
    /\ Len(log[1]) = 3
    /\ log[1][1].result = "raised"
    /\ log[1][2].result = "raised"
    /\ Error(ret[1]) = ""

\* the texts that contain "json" in some letter case
JsonTexts ==
    { <<"j", "s", "o", "n">>, <<"a", " ", "J", "S", "O", "N">>,
      <<"J", "s", "O", "n", "!">> }

\* C12: _prepare_messages_for_json_mode leaves the list as it is when some
\* system message contains "json" in any letter case, and otherwise puts
\* the synthetic system message at index 0 with the original messages after
\* it in their order; "json" in a message of another role does not count.
C12_InjectIffNoSystemJson ==
    result # << >> =>
        LET before == arg
            after == result[1]
        IN  IF \E i \in 1..Len(before) :
                  before[i].role = "system" /\ before[i].content \in JsonTexts
            THEN after = before
            ELSE /\ Len(after) = Len(before) + 1
                 /\ after[1] = [role |-> "system",
                                content |-> <<"o", "u", "t", " ", "J", "S", "O", "N", ".">>]
                 /\ \A i \in 1..Len(before) : after[i + 1] = before[i]

\* the keyword only in a user message: the synthetic message was put first
C12_Witness ==
    /\ result # << >>
    /\ Len(arg) = 2
    /\ arg[1].role = "system" /\ arg[1].content = <<"o", "k">>
    /\ arg[2].role = "user" /\ arg[2].content = <<"j", "s", "o", "n">>
    /\ Len(result[1]) = 3
    /\ result[1][1] = json_instruction

\* C13: with json_mode False, every attempt issues exactly one plain HTTP
\* request without response_format, carrying the list as the caller
\* supplied it; no list is ever changed, and json_mode_strategy stays
\* None after any number of calls, whether they succeed or fail.
C13_PlainModeTouchesNothing ==
    ~json_mode =>
        /\ json_mode_strategy = None
        /\ \A l \in ListIds : lists[l] = InitialMessageLists[l]
        /\ \A c \in Slots : Active(c) =>
              /\ Len(log[c]) = 1
              /\ httpCount[c] = attempt[c] + 1
              /\ chatCalls[c] = attempt[c] + 1
              /\ Current(c).kind = "chat_plain"
              /\ response_format(Current(c).kind) = ""
              /\ Current(c).messages = supplied[c]
              /\ lists[messages[c]] = supplied[c]

\* a call without json_mode that failed on every one of its attempts
C13_Witness ==
    /\ ~json_mode
    /\ ReturnedFailure(1)
    /\ attempt[1] = max_retries - 1
    /\ httpCount[1] = max_retries

\* the usage data request() is to hand back for a response
ExpectedUsage(r) ==
    IF r.has_usage
    THEN [prompt_tokens |-> IF "prompt_tokens" \in DOMAIN r.usage
                            THEN r.usage.prompt_tokens ELSE 0,
          completion_tokens |-> IF "completion_tokens" \in DOMAIN r.usage
                                THEN r.usage.completion_tokens ELSE 0,
          total_tokens |-> IF "total_tokens" \in DOMAIN r.usage
                           THEN r.usage.total_tokens ELSE 0,
          cost |-> IF "cost" \in DOMAIN r.usage THEN r.usage.cost ELSE 0]
    ELSE [prompt_tokens |-> 0, completion_tokens |-> 0, total_tokens |-> 0,
          cost |-> 0]

\* what the HTTP call returning r (a response with a choice) does to call c
\* when the parsed object is due for valid content
ParsedOrRawReturned(c, r) ==
    /\ pc'[c] = "done"
    /\ slept' = slept
    /\ attempt' = attempt
    /\ httpCount' = httpCount
    /\ Error(ret'[c]) = ""
    /\ Usage(ret'[c]) = ExpectedUsage(r)
    /\ Content(ret'[c]) = IF r.valid THEN [parsed |-> r.content]
                                     ELSE [raw |-> r.content]

\* C14 as stated: after a successful HTTP call in JSON mode request()
\* returns the parsed schema object when the content validates and the raw
\* content with error "" and the extracted usage when it does not, without
\* another attempt or sleep.
C14_AsStated ==
    [][\A r \in Responses :
          (json_mode /\ r.choices > 0 /\ HttpReturn(1, r)) =>
              ParsedOrRawReturned(1, r)]_vars

\* C14: after a successful HTTP call in JSON mode of a call made with
\* return_parsed True, request() returns the parsed schema object when the
\* content validates, and the raw content with error "" and the extracted
\* usage when validation fails; the validation failure is followed by no
\* further attempt, HTTP request or backoff sleep.
C14_ParsedOrRawWhenParsingAsked ==
    [][\A r \in Responses :
          (json_mode /\ return_parsed[1] /\ r.choices > 0 /\ HttpReturn(1, r)) =>
              ParsedOrRawReturned(1, r)]_vars

\* a JSON-mode call asked to parse got content that fails validation, with
\* usage, and returned it raw
C14_Witness ==
    /\ json_mode
    /\ return_parsed[1]
    /\ ReturnedSuccess(1)
    /\ Content(ret[1]) = [raw |-> "{}"]
    /\ Error(ret[1]) = ""
    /\ Usage(ret[1]).prompt_tokens = 4

\* C15: whenever request() is called with return_parsed True (the schema is
\* always set) and the attempt succeeds with content that validates, the
\* returned response_content is the parsed schema object; a raw string is
\* returned only when return_parsed is False or validation fails.
C15_ParsedWheneverAsked ==
    [][\A r \in Responses :
          (r.choices > 0 /\ HttpReturn(1, r)) =>
              Content(ret'[1]) = IF return_parsed[1] /\ r.valid
                                 THEN [parsed |-> r.content]
                                 ELSE [raw |-> r.content]]_vars

\* C16: _extract_usage returns all zeros when the response has no usage
\* attribute or a usage that is None, and otherwise each of the four fields
\* as the usage provides it, 0 for every field the usage lacks; the result
\* always has exactly the four keys.
C16_UsageCopiedOrZero ==
    result # << >> =>
        LET response == arg
            usage_data == result[1]
        IN  /\ DOMAIN usage_data =
                  {"prompt_tokens", "completion_tokens", "total_tokens", "cost"}
            /\ (~response.has_usage \/ response.usage = << >>) =>
                  \A f \in DOMAIN usage_data : usage_data[f] = 0
            /\ response.has_usage =>
                  \A f \in DOMAIN usage_data :
                     /\ f \in DOMAIN response.usage => usage_data[f] = response.usage[f]
                     /\ f \notin DOMAIN response.usage => usage_data[f] = 0

\* usage extracted from a response that gives the prompt tokens and the
\* cost only
C16_Witness ==
    /\ result # << >>
    /\ "has_usage" \in DOMAIN arg
    /\ arg.has_usage
    /\ DOMAIN arg.usage = {"prompt_tokens", "cost"}
    /\ result[1].prompt_tokens = 1
    /\ result[1].cost = 5
    /\ result[1].total_tokens = 0

\* the sum of one steps_* count over the first n calls
RECURSIVE SumOfCount(_, _)
SumOfCount(count, n) ==
    IF n = 0 THEN 0
    ELSE SumOfCount(count, n - 1) + saves[n].step_tokens[count]

\* C17: starting from a missing file, after any sequence of
\* save_token_count_to_file calls the stored "calls" list holds exactly one
\* record per call in call order, and each of the seven total_* token
\* counters is the sum over all calls so far of the corresponding steps_*
\* count.
C17_CallsAndTokenTotals ==
    IF Len(saves) = 0
    THEN file = << >>
    ELSE /\ Len(file.calls) = Len(saves)
         /\ \A i \in 1..Len(saves) :
               /\ file.calls[i].task_name = saves[i].task_name
               /\ file.calls[i].step_tokens = saves[i].step_tokens
         /\ file.total_planning_input_tokens =
               SumOfCount("steps_planning_input_token_counts", Len(saves))
         /\ file.total_planning_output_tokens =
               SumOfCount("steps_planning_output_token_counts", Len(saves))
         /\ file.total_reward_input_tokens =
               SumOfCount("steps_reward_input_token_counts", Len(saves))
         /\ file.total_reward_output_tokens =
               SumOfCount("steps_reward_output_token_counts", Len(saves))
         /\ file.total_input_tokens =
               SumOfCount("steps_input_token_counts", Len(saves))
         /\ file.total_output_tokens =
               SumOfCount("steps_output_token_counts", Len(saves))
         /\ file.total_tokens = SumOfCount("steps_token_counts", Len(saves))

\* two calls with different tasks and counts have been saved
C17_Witness ==
    /\ Len(saves) = 2
    /\ saves[1].task_name = "t2"
    /\ saves[2].task_name = "t1"
    /\ saves[1].step_tokens.steps_token_counts = 3
    /\ saves[2].step_tokens.steps_token_counts = 14
    /\ file.total_tokens = 17
    /\ Len(file.calls) = 2

\* the cost of one call: the API-provided planning and reward costs when
\* either is positive, otherwise the tokens priced from token_pricing (the
\* reward tokens being priced only together with the planning tokens)
CallCost(call) ==
    LET step_tokens == call.step_tokens
        token_pricing == call.token_pricing
        planning_api_cost ==
            IF "planning_total_cost" \in DOMAIN step_tokens
            THEN step_tokens.planning_total_cost ELSE 0
        reward_api_cost ==
            IF "reward_total_cost" \in DOMAIN step_tokens
            THEN step_tokens.reward_total_cost ELSE 0
    IN  IF planning_api_cost > 0 \/ reward_api_cost > 0
        THEN planning_api_cost + reward_api_cost
        ELSE IF DOMAIN token_pricing = {} THEN 0
        ELSE IF "p" \notin token_pricing.pricing_models THEN 0
        ELSE step_tokens.steps_planning_input_token_counts * token_pricing.input_price["p"]
             + step_tokens.steps_planning_output_token_counts * token_pricing.output_price["p"]
             + (IF "r" \in token_pricing.pricing_models
                THEN step_tokens.steps_reward_input_token_counts * token_pricing.input_price["r"]
                     + step_tokens.steps_reward_output_token_counts * token_pricing.output_price["r"]
                ELSE 0)

RECURSIVE SumOfCallCosts(_)
SumOfCallCosts(n) ==
    IF n = 0 THEN 0 ELSE SumOfCallCosts(n - 1) + CallCost(saves[n])

\* C18: after any sequence of save_token_count_to_file calls the stored
\* cost totals are consistent sums of per-call costs: the total input cost
\* is the planning plus the reward input cost, the total output cost is the
\* planning plus the reward output cost, and total_token_cost is the sum
\* over all calls of the call's cost, no call's cost counted twice.
C18_CostTotalsAreSums ==
    Len(saves) > 0 =>
        /\ file.total_input_token_cost =
              file.total_planning_input_token_cost + file.total_reward_input_token_cost
        /\ file.total_output_token_cost =
              file.total_planning_output_token_cost + file.total_reward_output_token_cost
        /\ file.total_token_cost = SumOfCallCosts(Len(saves))

\* the synthetic system messages a list holds
SyntheticIn(list) ==
    Cardinality({i \in 1..Len(list) : list[i] = json_instruction})

\* C19: whatever json_schema and json_object attempts have been made on a
\* list (degradation fall-through, retries, repeated calls passing the same
\* list), the list holds at most one synthetic system message more than
\* the caller put there, and every list a JSON request has sent is a fixed
\* point of _prepare_messages_for_json_mode.
C19_InjectionIdempotent ==
    /\ \A l \in ListIds :
          /\ SyntheticIn(lists[l]) <= 1
          /\ Len(lists[l]) <= Len(InitialMessageLists[l]) + 1
          /\ lists[l] # InitialMessageLists[l] =>
                _prepare_messages_for_json_mode(lists[l]) = lists[l]
    /\ \A c \in Slots : \A i \in 1..Len(log[c]) :
          log[c][i].kind \in JsonKinds =>
              /\ SyntheticIn(log[c][i].messages) <= 1
              /\ _prepare_messages_for_json_mode(log[c][i].messages) =
                    log[c][i].messages

\* a later call passes a list that already holds the synthetic message to
\* another json_object request
C19_Witness ==
    /\ json_mode
    /\ startStrategy[1] = "json_object"
    /\ Active(1)
    /\ Current(1).kind = "json_object"
    /\ messages[1] = 1
    /\ supplied[1] = <<json_instruction>> \o InitialMessageLists[1]
    /\ lists[1] = supplied[1]

\* C20: with json_mode True and calls made one after another, the only HTTP
\* failure that leaves chat() for the retry loop is that of the plain
\* request made in the disabled state: whenever an attempt has failed
\* because an HTTP call raised, json_mode_strategy is "disabled" then and
\* ever after, so it is "disabled" whenever request() returns a failure
\* envelope caused by HTTP errors.
C20_HttpFailureMeansDisabled ==
    json_mode =>
        /\ \A c \in Slots :
              (pc[c] \in {"sleep", "done"} /\ Current(c).result = "raised") =>
                  /\ Current(c).kind = "plain_no_json_mode"
                  /\ json_mode_strategy = "disabled"
        /\ wasDisabled => json_mode_strategy = "disabled"

\* a JSON-mode call returned the failure envelope after its last plain
\* request raised
C20_Witness ==
    /\ json_mode
    /\ ReturnedFailure(1)
    /\ Current(1).result = "raised"
    /\ Len(ret[1]) = 3
    /\ Error(ret[1]) = "Request timed out."
    /\ json_mode_strategy = "disabled"

\* C21: one request() call issues at most 3 HTTP requests when json_mode is
\* False and at most 5 when it is True (up to 3 in the attempt that
\* degrades through json_schema, json_object and plain, then 1 in each
\* remaining attempt); every attempt issues at least 1 and at most 3.
C21_HttpRequestBound ==
    \A c \in Slots : Active(c) =>
        /\ httpCount[c] >= 1
        /\ ~json_mode => httpCount[c] <= 3
        /\ json_mode => httpCount[c] <= 5
        /\ Len(log[c]) >= 1
        /\ Len(log[c]) <= 3

\* the token count of one message, a message with None content counting
\* nothing
TokensOfMessage(message) ==
    CASE message.content.kind = "None" -> 0
      [] message.content.kind = "str" -> Len(message.content.text)
      [] message.content.kind = "list" ->
            LET parts == message.content.parts
                counted == {i \in 1..Len(parts) :
                              /\ "type" \in DOMAIN parts[i]
                              /\ Contains(<<"t", "e", "x", "t">>, parts[i].type)}
                RECURSIVE SumOver(_)
                SumOver(S) ==
                    IF S = {} THEN 0
                    ELSE LET i == CHOOSE j \in S : TRUE
                         IN  Len(parts[i].text) + SumOver(S \ {i})
            IN  SumOver(counted)

RECURSIVE SumOfMessages(_, _)
SumOfMessages(items, n) ==
    IF n = 0 THEN 0
    ELSE SumOfMessages(items, n - 1) + TokensOfMessage(items[n])

\* C22: calculation_of_token over a list of messages (for a supported
\* model) skips a message whose content is None and still counts every
\* other message: the result is the sum of the token counts of all the
\* messages with non-None content, wherever the None-content message is.
C22_NoneContentSkipped ==
    (result # << >> /\ arg.supported /\ arg.messages.kind = "list") =>
        result[1] = SumOfMessages(arg.messages.items, Len(arg.messages.items))

=============================================================================
